---- MODULE Spec2Model ----
(***************************************************************************)
(* Capture-and-deduction session engine of Sherlock OS.                    *)
(*                                                                         *)
(* The model follows src/App.tsx (session state, handleCapture,            *)
(* clearDeductionData, toggleCCTVMode), src/components/CameraHUD.tsx       *)
(* (acquisition source, captureFrame, poll loop, manual capture, asset     *)
(* load, full reset) and src/services/geminiService.ts (analyzeEvidence).  *)
(*                                                                         *)
(* Every handler is a function from a state record to a state record, so   *)
(* that a handler that calls another one (handleFullReset -> stopCamera,   *)
(* onReset) is the composition of the two.  One step of the model is one   *)
(* handler run to completion followed by the reactive effect that React    *)
(* runs after the render it causes.  The two asynchronous suspension       *)
(* points of the code, the gateway round trip and the device open, are     *)
(* split in a dispatch step and a settlement step.                         *)
(*                                                                         *)
(* Operator commands are taken at the handler: a handler can be invoked in *)
(* any state, also in one where the button that triggers it is not         *)
(* rendered (Freeze & Deduce is rendered only while the feed is active).   *)
(*                                                                         *)
(* Numbers: confidences and thresholds are in hundredths (0.5 is 50).      *)
(***************************************************************************)
EXTENDS Integers, Sequences, FiniteSets

VARIABLES
    \* App.tsx
    isAnalyzing, isCCTVEnabled, currentAnalysis, eventHistory, error,
    memory, config,
    \* CameraHUD.tsx
    isActive, previewUrl, previewType, permissionError, isInitializing,
    srcObject, unrevoked,
    \* asynchronous operations outstanding
    inflight, openPending,
    \* history: calls dispatched so far, the last handler run, the call it
    \* settled (<<>> when none), and the response or the outcome of the
    \* device open it settled, or the condition of the source element a tick
    \* read, or "cleared" for a full reset that found history and memory to
    \* clear ("none" otherwise)
    nCalls, lastOp, lastCall, lastResponse

vars ==
    <<isAnalyzing, isCCTVEnabled, currentAnalysis, eventHistory, error,
      memory, config, isActive, previewUrl, previewType, permissionError,
      isInitializing, srcObject, unrevoked, inflight,
      openPending, nCalls, lastOp,
      lastCall, lastResponse>>

\* ------------------------------------------------------------------ bounds

\* Gateway calls dispatched in one behaviour.
MaxCalls == 2

\* Blob URLs created and not revoked at one time.
MaxBlobs == 1

\* ------------------------------------------------------- program constants

\* combined.slice(0, 50)
HistoryCap == 50

\* .slice(-20)
MemoryCap == 20

\* confidenceThreshold: 0.5
DefaultThreshold == 50

Null == "null"

\* The slider positions the model lets the operator choose (step 0.05).
Thresholds == {50, 95}

ErrorMessage == "Logical failure: Thinking palace overloaded."

\* ------------------------------------------------------------ state record

Cur ==
    [isAnalyzing |-> isAnalyzing, isCCTVEnabled |-> isCCTVEnabled,
     currentAnalysis |-> currentAnalysis, eventHistory |-> eventHistory,
     error |-> error, memory |-> memory, config |-> config,
     isActive |-> isActive, previewUrl |-> previewUrl,
     previewType |-> previewType, permissionError |-> permissionError,
     isInitializing |-> isInitializing,
     srcObject |-> srcObject, unrevoked |-> unrevoked,
     inflight |-> inflight,
     openPending |-> openPending, nCalls |-> nCalls]

Commit(s) ==
    /\ isAnalyzing' = s.isAnalyzing
    /\ isCCTVEnabled' = s.isCCTVEnabled
    /\ currentAnalysis' = s.currentAnalysis
    /\ eventHistory' = s.eventHistory
    /\ error' = s.error
    /\ memory' = s.memory
    /\ config' = s.config
    /\ isActive' = s.isActive
    /\ previewUrl' = s.previewUrl
    /\ previewType' = s.previewType
    /\ permissionError' = s.permissionError
    /\ isInitializing' = s.isInitializing
    /\ srcObject' = s.srcObject
    /\ unrevoked' = s.unrevoked
    /\ inflight' = s.inflight
    /\ openPending' = s.openPending
    /\ nCalls' = s.nCalls

\* ------------------------------------------------------ remote analyzer

\* One Evidence box, in the 0-1000 space of the analysed frame.
Box(x, y, w, h) == [x |-> x, y |-> y, width |-> w, height |-> h]

\* One Deduction of a response: its title, its confidence and its evidence.
DedWith(t, c, ev) == [title |-> t, confidence |-> c, evidence |-> ev]

Ded(t, c) == DedWith(t, c, <<Box(500, 250, 100, 50)>>)

OneDeduction == <<Ded(1, 90)>>

\* One above, one below and one exactly at the default threshold.
MixedDeductions == <<Ded(1, 90), Ded(2, 30), Ded(3, 50)>>

\* A single response with more deductions than the history keeps.
ManyDeductions == [i \in 1..(HistoryCap + 1) |-> Ded(i, 90)]

\* Memory-update facts: a repeat within one result, an overlap with the
\* former, and more facts than the memory keeps.
RepeatedFacts == <<1, 2, 1>>

OverlapFacts == <<2, 3>>

ManyFacts == [i \in 1..(MemoryCap + 1) |-> i + 1]

\* What the remote call can come back with: a rejected promise, a body that
\* JSON.parse refuses, the body '{}' (response.text empty, no field
\* present), and bodies with deductions and memory-update facts.  An absent
\* field is has... = FALSE.
Response(name, kind, hasDeductions, deductions, hasMemory, facts) ==
    [name |-> name, kind |-> kind, hasDeductions |-> hasDeductions,
     deductions |-> deductions, hasMemory |-> hasMemory,
     session_memory |-> facts]

Rejection == Response("reject", "reject", FALSE, <<>>, FALSE, <<>>)

Responses ==
    {Rejection,
     Response("unparsable", "unparsable", FALSE, <<>>, FALSE, <<>>),
     Response("empty", "json", FALSE, <<>>, FALSE, <<>>),
     Response("one", "json", TRUE, OneDeduction, TRUE, RepeatedFacts),
     Response("mixed", "json", TRUE, MixedDeductions, TRUE, OverlapFacts),
     Response("many", "json", TRUE, ManyDeductions, TRUE, ManyFacts)}

\* ---------------------------------------------------------- pure helpers

Range(seq) == {seq[i] : i \in 1..Len(seq)}

\* Array.prototype.slice(0, n)
SliceFirst(seq, n) == IF Len(seq) <= n THEN seq ELSE SubSeq(seq, 1, n)

\* Array.prototype.slice(-n)
SliceLast(seq, n) ==
    IF Len(seq) <= n THEN seq ELSE SubSeq(seq, Len(seq) - n + 1, Len(seq))

\* The places of seq that hold the first occurrence of their element.
FirstOccurrences(seq) ==
    {i \in 1..Len(seq) : \A j \in 1..(i - 1) : seq[j] # seq[i]}

\* [...new Set(seq)]: a Set keeps insertion order and ignores a value it
\* already holds, so spreading it gives the first occurrences, in order.
SetOrder(seq) ==
    LET keep == FirstOccurrences(seq)
        places == SelectSeq([i \in 1..Len(seq) |-> i],
                            LAMBDA i : i \in keep)
    IN  [k \in 1..Len(places) |-> seq[places[k]]]

\* parsed.deductions.filter(d => d.confidence >= config.confidenceThreshold)
FilterUnfiltered(ds, threshold) == ds

FilterStrict(ds, threshold) ==
    SelectSeq(ds, LAMBDA d : d.confidence > threshold)

FilterDeductions(ds, threshold) ==
    SelectSeq(ds, LAMBDA d : d.confidence >= threshold)

\* analyzeEvidence, from the response on: the promise is rejected, or the
\* parse throws, or the parsed object is returned with its deductions
\* filtered by the threshold the call was given.
AnalyzeEvidence(resp, cfg) ==
    IF resp.kind # "json" THEN [ok |-> FALSE, result |-> resp]
    ELSE [ok |-> TRUE,
          result |->
            [resp EXCEPT !.deductions =
                IF resp.hasDeductions
                THEN FilterDeductions(@, cfg.confidenceThreshold)
                ELSE @]]

\* setMemory(prev => [...new Set([...prev, ...facts])].slice(-20))
MergeNoDedup(prev, facts) == SliceLast(prev \o facts, MemoryCap)

MergeUncapped(prev, facts) == SetOrder(prev \o facts)

MergeMoveToEnd(prev, facts) ==
    SliceLast(SelectSeq(prev, LAMBDA f : f \notin Range(facts))
                \o SetOrder(facts), MemoryCap)

MergeMemory(prev, facts) == SliceLast(SetOrder(prev \o facts), MemoryCap)

\* setEventHistory(prev => [...newEntries, ...prev].slice(0, 50))
PrependUncapped(prev, newEntries) == newEntries \o prev

AppendHistory(prev, newEntries) ==
    SliceFirst(prev \o newEntries, HistoryCap)

PrependHistory(prev, newEntries) ==
    SliceFirst(newEntries \o prev, HistoryCap)

\* ----------------------------------------------------------------- App.tsx

\* The closure a dispatched call keeps: the config and the surveillance flag
\* of the render that dispatched it.  by and stale are history: who
\* dispatched the call, and whether the session was cleared or the
\* surveillance mode switched since.
Call(s, payload, by) ==
    [id |-> s.nCalls + 1, config |-> s.config, cctv |-> s.isCCTVEnabled,
     payload |-> payload, by |-> by, stale |-> FALSE]

\* handleCapture up to the await: refuse when a call is in flight, else mark
\* in flight, clear the error and dispatch.
HandleCaptureNoFlag(s, payload, by) ==
    IF s.isAnalyzing THEN s
    ELSE [s EXCEPT !.error = Null,
                   !.inflight = @ \cup {Call(s, payload, by)},
                   !.nCalls = @ + 1]

HandleCapture(s, payload, by) ==
    IF s.isAnalyzing THEN s
    ELSE [s EXCEPT !.isAnalyzing = TRUE,
                   !.error = Null,
                   !.inflight = @ \cup {Call(s, payload, by)},
                   !.nCalls = @ + 1]

\* newEntries: the deductions of a result as event log entries; call
\* stands for the fresh uuid and the timestamp of the batch.
NewEntries(c, ds) ==
    [i \in 1..Len(ds) |->
        [title |-> ds[i].title, confidence |-> ds[i].confidence,
         call |-> c.id]]

\* handleCapture from the await on: try / catch / finally.
HandleCaptureSettledNoFinally(s, c, resp) ==
    LET r == AnalyzeEvidence(resp, c.config)
        res == r.result
    IN  IF r.ok
        THEN [s EXCEPT
                !.currentAnalysis =
                    <<[call |-> c.id, hasDeductions |-> res.hasDeductions,
                       deductions |-> res.deductions]>>,
                !.eventHistory =
                    IF res.hasDeductions /\ Len(res.deductions) > 0
                    THEN PrependHistory(@, NewEntries(c, res.deductions))
                    ELSE @,
                !.memory =
                    IF res.hasMemory
                    THEN MergeMemory(@, res.session_memory)
                    ELSE @,
                !.isAnalyzing = FALSE,
                !.inflight = @ \ {c}]
        ELSE [s EXCEPT
                !.error = IF ~c.cctv THEN ErrorMessage ELSE @,
                !.inflight = @ \ {c}]

HandleCaptureSettledFailureClears(s, c, resp) ==
    LET r == AnalyzeEvidence(resp, c.config)
        res == r.result
    IN  IF r.ok
        THEN [s EXCEPT
                !.currentAnalysis =
                    <<[call |-> c.id, hasDeductions |-> res.hasDeductions,
                       deductions |-> res.deductions]>>,
                !.eventHistory =
                    IF res.hasDeductions /\ Len(res.deductions) > 0
                    THEN PrependHistory(@, NewEntries(c, res.deductions))
                    ELSE @,
                !.memory =
                    IF res.hasMemory
                    THEN MergeMemory(@, res.session_memory)
                    ELSE @,
                !.isAnalyzing = FALSE,
                !.inflight = @ \ {c}]
        ELSE [s EXCEPT
                !.currentAnalysis = <<>>,
                !.error = IF ~c.cctv THEN ErrorMessage ELSE @,
                !.isAnalyzing = FALSE,
                !.inflight = @ \ {c}]

HandleCaptureSettledCurrentConfig(s, c, resp) ==
    LET r == AnalyzeEvidence(resp, s.config)
        res == r.result
    IN  IF r.ok
        THEN [s EXCEPT
                !.currentAnalysis =
                    <<[call |-> c.id, hasDeductions |-> res.hasDeductions,
                       deductions |-> res.deductions]>>,
                !.eventHistory =
                    IF res.hasDeductions /\ Len(res.deductions) > 0
                    THEN PrependHistory(@, NewEntries(c, res.deductions))
                    ELSE @,
                !.memory =
                    IF res.hasMemory
                    THEN MergeMemory(@, res.session_memory)
                    ELSE @,
                !.isAnalyzing = FALSE,
                !.inflight = @ \ {c}]
        ELSE [s EXCEPT
                !.error = IF ~c.cctv THEN ErrorMessage ELSE @,
                !.isAnalyzing = FALSE,
                !.inflight = @ \ {c}]

HandleCaptureSettledCurrentMode(s, c, resp) ==
    LET r == AnalyzeEvidence(resp, c.config)
        res == r.result
    IN  IF r.ok
        THEN [s EXCEPT
                !.currentAnalysis =
                    <<[call |-> c.id, hasDeductions |-> res.hasDeductions,
                       deductions |-> res.deductions]>>,
                !.eventHistory =
                    IF res.hasDeductions /\ Len(res.deductions) > 0
                    THEN PrependHistory(@, NewEntries(c, res.deductions))
                    ELSE @,
                !.memory =
                    IF res.hasMemory
                    THEN MergeMemory(@, res.session_memory)
                    ELSE @,
                !.isAnalyzing = FALSE,
                !.inflight = @ \ {c}]
        ELSE [s EXCEPT
                !.error = IF ~s.isCCTVEnabled THEN ErrorMessage ELSE @,
                !.isAnalyzing = FALSE,
                !.inflight = @ \ {c}]

HandleCaptureSettled(s, c, resp) ==
    LET r == AnalyzeEvidence(resp, c.config)
        res == r.result
    IN  IF r.ok
        THEN [s EXCEPT
                !.currentAnalysis =
                    <<[call |-> c.id, hasDeductions |-> res.hasDeductions,
                       deductions |-> res.deductions]>>,
                !.eventHistory =
                    IF res.hasDeductions /\ Len(res.deductions) > 0
                    THEN PrependHistory(@, NewEntries(c, res.deductions))
                    ELSE @,
                !.memory =
                    IF res.hasMemory
                    THEN MergeMemory(@, res.session_memory)
                    ELSE @,
                !.isAnalyzing = FALSE,
                !.inflight = @ \ {c}]
        ELSE [s EXCEPT
                !.error = IF ~c.cctv THEN ErrorMessage ELSE @,
                !.isAnalyzing = FALSE,
                !.inflight = @ \ {c}]

\* History only: the calls in flight become stale.
MarkStale(s) ==
    [s EXCEPT !.inflight = {[c EXCEPT !.stale = TRUE] : c \in @}]

\* clearDeductionData
ClearDeductionDataAndFlag(s) ==
    [MarkStale(s) EXCEPT !.currentAnalysis = <<>>,
                         !.eventHistory = <<>>,
                         !.memory = <<>>,
                         !.isAnalyzing = FALSE]

ClearDeductionDataKeepsMemory(s) ==
    [MarkStale(s) EXCEPT !.currentAnalysis = <<>>,
                         !.eventHistory = <<>>]

ClearDeductionData(s) ==
    [MarkStale(s) EXCEPT !.currentAnalysis = <<>>,
                         !.eventHistory = <<>>,
                         !.memory = <<>>]

\* toggleCCTVMode
ToggleCCTVModeAlwaysClears(s) ==
    LET nextState == ~s.isCCTVEnabled
        s1 == [MarkStale(s) EXCEPT !.isCCTVEnabled = nextState]
    IN  [s1 EXCEPT !.currentAnalysis = <<>>,
                   !.eventHistory = <<>>,
                   !.memory = <<>>]

ToggleCCTVMode(s) ==
    LET nextState == ~s.isCCTVEnabled
        s1 == [MarkStale(s) EXCEPT !.isCCTVEnabled = nextState]
    IN  IF nextState THEN ClearDeductionData(s1) ELSE s1

\* ----------------------------------------------------------- CameraHUD.tsx

\* clearResources: revoke the blob URL of the current preview.
ClearResources(s) ==
    IF s.previewUrl = "blob" THEN [s EXCEPT !.unrevoked = @ - 1] ELSE s

\* stopCamera: stop the tracks of the stream the video element holds,
\* detach it, feed inactive.
StopCamera(s) == [s EXCEPT !.srcObject = FALSE, !.isActive = FALSE]

\* setupCamera up to the await on getUserMedia.
SetupCameraUnguarded(s) ==
    LET s1 == ClearResources([s EXCEPT !.permissionError = Null,
                                       !.isInitializing = TRUE])
        s2 == [s1 EXCEPT !.previewUrl = Null, !.previewType = Null]
    IN  [ClearDeductionData(s2) EXCEPT !.openPending = @ + 1]

SetupCamera(s) ==
    IF s.isInitializing THEN s
    ELSE LET s1 == ClearResources([s EXCEPT !.permissionError = Null,
                                            !.isInitializing = TRUE])
             s2 == [s1 EXCEPT !.previewUrl = Null, !.previewType = Null]
         IN  [ClearDeductionData(s2) EXCEPT !.openPending = @ + 1]

\* How getUserMedia and play can settle: both resolve, getUserMedia
\* rejects, or getUserMedia resolves and play rejects.
OpenOutcomes ==
    {"granted", "NotAllowedError", "NotFoundError", "playNotAllowedError"}

\* videoRef.current.srcObject = stream.  A stream the element still holds
\* is replaced without its tracks being stopped.
AttachStream(s) == [s EXCEPT !.srcObject = TRUE]

\* The catch block of setupCamera.
SetupCameraFailed(s, name) ==
    [s EXCEPT !.isInitializing = FALSE,
              !.permissionError =
                  IF name = "NotAllowedError" THEN "Access Denied"
                  ELSE "HW Error",
              !.isActive = FALSE,
              !.openPending = @ - 1]

\* setupCamera from the await on: the stream is attached and played, or the
\* catch block runs, after the stream was attached when it is play that
\* rejects.
SetupCameraSettled(s, outcome) ==
    IF outcome = "granted"
    THEN [AttachStream(s) EXCEPT !.isActive = TRUE,
                                 !.isInitializing = FALSE,
                                 !.openPending = @ - 1]
    ELSE IF outcome = "playNotAllowedError"
    THEN SetupCameraFailed(AttachStream(s), "NotAllowedError")
    ELSE SetupCameraFailed(s, outcome)

\* CCTV FEED MANAGEMENT effect, run after the render a handler causes.
FeedEffect(s) ==
    IF /\ s.isCCTVEnabled /\ ~s.isActive /\ s.previewUrl = Null
       /\ ~s.isInitializing /\ s.permissionError = Null
    THEN SetupCamera(s)
    ELSE s

\* What the source element can be at a capture: HAVE_CURRENT_DATA or more,
\* less than that, or (a video asset) paused.
SourceConditions(s) ==
    IF s.isActive THEN {"ready", "notready"}
    ELSE {"ready", "notready", "paused"}

\* captureFrame has a video element as its source: the live feed or a video
\* asset.
ReadsElement(s) == s.isActive \/ s.previewType = "video"

\* captureFrame.  A live feed or a video asset is drawn on the canvas and
\* sent as JPEG; a still image sends what follows the first comma of its
\* URL, which a blob URL does not have.  The flash indicator (setFlash and
\* its 100 ms timer) is display state that no handler reads; it is left out.
CaptureFrameUnready(s, src, by) ==
    IF ReadsElement(s)
    THEN IF s.previewType = "video" /\ src = "paused" THEN s
         ELSE HandleCapture(s, "jpeg", by)
    ELSE IF s.previewType = "image" /\ s.previewUrl # Null
         THEN HandleCapture(s,
                            IF s.previewUrl = "data" THEN "base64"
                            ELSE "undefined",
                            by)
         ELSE s

CaptureFramePaused(s, src, by) ==
    IF ReadsElement(s)
    THEN IF src = "notready" THEN s
         ELSE HandleCapture(s, "jpeg", by)
    ELSE IF s.previewType = "image" /\ s.previewUrl # Null
         THEN HandleCapture(s,
                            IF s.previewUrl = "data" THEN "base64"
                            ELSE "undefined",
                            by)
         ELSE s

CaptureFrameOf(s, src, by, jpeg) ==
    IF ReadsElement(s)
    THEN IF src = "notready" THEN s
         ELSE IF s.previewType = "video" /\ src = "paused" THEN s
         ELSE HandleCapture(s, jpeg, by)
    ELSE IF s.previewType = "image" /\ s.previewUrl # Null
         THEN HandleCapture(s,
                            IF s.previewUrl = "data" THEN "base64"
                            ELSE "undefined",
                            by)
         ELSE s

\* captureFrame where the size of the frame plays no part: the JPEG of the
\* canvas is "jpeg".
CaptureFrame(s, src, by) == CaptureFrameOf(s, src, by, "jpeg")

\* const maxWidth = 1024
MaxWidth == 1024

\* The canvas captureFrame draws a frame of the source on: the scale is
\* maxWidth / videoWidth when the frame is wider than maxWidth and 1
\* otherwise, and canvas.width and canvas.height are integers (the product
\* is truncated).  source is history: the frame that was drawn.
EncodeFrame(f) ==
    IF f.width > MaxWidth
    THEN [width |-> (f.width * MaxWidth) \div f.width,
          height |-> (f.height * MaxWidth) \div f.width,
          source |-> f]
    ELSE [width |-> f.width, height |-> f.height, source |-> f]

\* The interval callback of the STABLE POLL LOOP effect.
PollTick(s, src) ==
    IF ~s.isAnalyzing THEN CaptureFrame(s, src, "tick") ELSE s

\* handleManualCapture
HandleManualCaptureAlwaysFreeze(s, src) ==
    IF s.isAnalyzing THEN s
    ELSE StopCamera([CaptureFrame(s, src, "manual") EXCEPT
                        !.previewUrl = "data", !.previewType = "image"])

HandleManualCapture(s, src) ==
    IF s.isAnalyzing THEN s
    ELSE LET s1 == CaptureFrame(s, src, "manual")
         IN  IF s.isActive
             THEN StopCamera([s1 EXCEPT !.previewUrl = "data",
                                        !.previewType = "image"])
             ELSE s1

\* handleFileUpload, for a file of the given kind.
HandleFileUpload(s, type) ==
    LET s1 == ClearResources(ClearDeductionData(StopCamera(s)))
    IN  [s1 EXCEPT !.previewUrl = "blob", !.previewType = type,
                   !.unrevoked = @ + 1]

\* handleFullReset
HandleFullReset(s) ==
    LET s1 == ClearResources(StopCamera(s))
    IN  ClearDeductionData([s1 EXCEPT !.previewUrl = Null,
                                      !.previewType = Null])

\* (v / 1000) * 100 of the overlay's style, in hundredths of a percent.
PercentOf(v) == (v * 100 * 100) \div 1000

\* The style of one evidence box: left and width are percentages of the
\* width of the viewport, top and height of its height.
PlaceBoxTransposed(ev) ==
    [left |-> PercentOf(ev.y), top |-> PercentOf(ev.x),
     width |-> PercentOf(ev.height), height |-> PercentOf(ev.width)]

PlaceBox(ev) ==
    [left |-> PercentOf(ev.x), top |-> PercentOf(ev.y),
     width |-> PercentOf(ev.width), height |-> PercentOf(ev.height)]

\* EVIDENCE OVERLAY of the render: analysisResults?.deductions?.map over
\* d.evidence?.map, one sequence of placed boxes for every deduction.
EvidenceOverlay(s) ==
    IF s.currentAnalysis = <<>> \/ ~s.currentAnalysis[1].hasDeductions
    THEN <<>>
    ELSE LET ds == s.currentAnalysis[1].deductions
         IN  [i \in 1..Len(ds) |->
                [j \in 1..Len(ds[i].evidence) |-> PlaceBox(ds[i].evidence[j])]]

\* ------------------------------------------------------------ the machine

\* The state after the first render: useState initial values.
Init ==
    /\ isAnalyzing = FALSE
    /\ isCCTVEnabled = FALSE
    /\ currentAnalysis = <<>>
    /\ eventHistory = <<>>
    /\ error = Null
    /\ memory = <<>>
    /\ config = [confidenceThreshold |-> DefaultThreshold,
                 priorityFlags |-> {"CRIMINAL_INTENT", "AGITATION"},
                 depthLevel |-> "standard"]
    /\ isActive = FALSE
    /\ previewUrl = Null
    /\ previewType = Null
    /\ permissionError = Null
    /\ isInitializing = FALSE
    /\ srcObject = FALSE
    /\ unrevoked = 0
    /\ inflight = {}
    /\ openPending = 0
    /\ nCalls = 0
    /\ lastOp = "init"
    /\ lastCall = <<>>
    /\ lastResponse = "none"

\* What a step records of itself.
Record(op, call, resp) ==
    /\ lastOp' = op
    /\ lastCall' = call
    /\ lastResponse' = resp

\* The operator invokes manual capture ("Freeze & Deduce").
ManualCapture ==
    /\ nCalls < MaxCalls
    /\ \E src \in SourceConditions(Cur) :
        Commit(FeedEffect(HandleManualCapture(Cur, src)))
    /\ Record("manualCapture", <<>>, "none")

\* The 2500 ms interval fires; it exists while isCCTVActive.
Tick ==
    /\ isCCTVEnabled
    /\ nCalls < MaxCalls
    /\ \E src \in SourceConditions(Cur) :
        /\ Commit(FeedEffect(PollTick(Cur, src)))
        /\ Record(IF isAnalyzing THEN "tickDropped" ELSE "tick", <<>>,
                  IF ~isAnalyzing /\ ReadsElement(Cur) THEN src ELSE "none")

\* A gateway call settles with the given response.
SettleWith(resp) ==
    \E c \in inflight :
        /\ Commit(FeedEffect(HandleCaptureSettled(Cur, c, resp)))
        /\ Record("settle", <<c>>, resp.name)

\* The promise of a gateway call is rejected, or it is fulfilled with one of
\* the bodies.
Settle ==
    \/ SettleWith(Rejection)
    \/ \E resp \in Responses \ {Rejection} : SettleWith(resp)

\* The operator starts the live feed (START LIVE FEED, Retry).
StartLive ==
    /\ Commit(FeedEffect(SetupCamera(Cur)))
    /\ Record("startLive", <<>>, "none")

\* getUserMedia and play settle.
OpenSettle ==
    /\ openPending > 0
    /\ \E outcome \in OpenOutcomes :
        /\ Commit(FeedEffect(SetupCameraSettled(Cur, outcome)))
        /\ Record("openSettle", <<>>, outcome)

\* The operator loads an image or a video file.
LoadAsset ==
    /\ \E type \in {"image", "video"} :
        /\ HandleFileUpload(Cur, type).unrevoked <= MaxBlobs
        /\ Commit(FeedEffect(HandleFileUpload(Cur, type)))
    /\ Record("loadAsset", <<>>, "none")

\* The operator clears the interface (Clear_Interface).
FullReset ==
    /\ Commit(FeedEffect(HandleFullReset(Cur)))
    /\ Record("fullReset", <<>>,
              IF eventHistory # <<>> /\ memory # <<>> THEN "cleared"
              ELSE "none")

\* The operator toggles surveillance (ACTIVATE_CCTV / SYSTEM_LIVE).
ToggleSurveillance ==
    /\ Commit(FeedEffect(ToggleCCTVMode(Cur)))
    /\ Record("toggleSurveillance", <<>>, "none")

\* The operator moves the confidence slider.
SetThreshold ==
    /\ \E v \in Thresholds \ {config.confidenceThreshold} :
        Commit([Cur EXCEPT !.config.confidenceThreshold = v])
    /\ Record("setConfig", <<>>, "none")

Next ==
    \/ ManualCapture
    \/ Tick
    \/ Settle
    \/ StartLive
    \/ OpenSettle
    \/ LoadAsset
    \/ FullReset
    \/ ToggleSurveillance
    \/ SetThreshold

Spec == Init /\ [][Next]_vars

\* ------------------------------------------- the machine of the projector

\* Evidence coordinates a response can bring: inside the 0-1000 space, on
\* its edges, and outside it on either side.
CoordsX == {-100, 0, 500, 1000, 1100}

CoordsY == {-100, 250, 1100}

Widths == {-1, 100, 1100}

Heights == {0, 50, 1100}

Boxes ==
    {Box(x, y, w, h) : x \in CoordsX, y \in CoordsY, w \in Widths,
                       h \in Heights}

\* Bodies with one deduction that carries one evidence box.
BoxResponses ==
    {Response("box", "json", TRUE, <<DedWith(1, 90, <<b>>)>>, FALSE, <<>>) :
        b \in Boxes}

\* A gateway call settles with a body that carries an evidence box.
SettleBox ==
    \E c \in inflight, resp \in BoxResponses :
        /\ Commit(FeedEffect(HandleCaptureSettled(Cur, c, resp)))
        /\ Record("settle", <<c>>, resp.name)

\* Assets are loaded and captured, and every result brings a box.
ProjNext ==
    \/ LoadAsset
    \/ ManualCapture
    \/ SettleBox

ProjSpec == Init /\ [][ProjNext]_vars

\* ---------------------------------------------- the machine of the memory

\* Memory-update facts a result can bring: none, one, a repeat within the
\* result, the same facts in another order, and more than the memory keeps,
\* with and without facts that were seen before.
FactLists ==
    [none |-> <<>>,
     single |-> <<1>>,
     repeat |-> <<1, 2, 1>>,
     overlap |-> <<2, 3>>,
     reversed |-> <<3, 2, 1>>,
     many |-> ManyFacts,
     manyFirst |-> <<30, 2>> \o ManyFacts]

FactResponses ==
    {Response(n, "json", TRUE, OneDeduction, TRUE, FactLists[n]) :
        n \in DOMAIN FactLists}

\* A gateway call settles with a body that carries memory-update facts.
SettleFacts ==
    \E c \in inflight, resp \in FactResponses :
        /\ Commit(FeedEffect(HandleCaptureSettled(Cur, c, resp)))
        /\ Record("settle", <<c>>, resp.name)

\* Assets are loaded and captured, and every result brings facts.
MemNext ==
    \/ LoadAsset
    \/ ManualCapture
    \/ SettleFacts

MemSpec == Init /\ [][MemNext]_vars

\* --------------------------------------------- the machine of the history

\* More deductions than half of what the history keeps: two such results
\* overflow it.
ThirtyDeductions == [i \in 1..30 |-> Ded(i, 90)]

\* Deduction lists a result can bring: none, one, some of them under the
\* threshold, and lists that overflow the history alone or in two results.
DeductionLists ==
    [none |-> <<>>,
     one |-> OneDeduction,
     mixed |-> MixedDeductions,
     thirty |-> ThirtyDeductions,
     many |-> ManyDeductions]

DeductionResponses ==
    {Response(n, "json", TRUE, DeductionLists[n], FALSE, <<>>) :
        n \in DOMAIN DeductionLists}

\* A gateway call settles with a body that carries deductions.
SettleDeductions ==
    \E c \in inflight, resp \in DeductionResponses :
        /\ Commit(FeedEffect(HandleCaptureSettled(Cur, c, resp)))
        /\ Record("settle", <<c>>, resp.name)

\* Assets are loaded and captured, and every result brings deductions.
HistNext ==
    \/ LoadAsset
    \/ ManualCapture
    \/ SettleDeductions

HistSpec == Init /\ [][HistNext]_vars

\* --------------------------------------------- the machine of the encoder

\* Frames a live feed or a video asset can have: landscape, square and
\* portrait, narrower and wider than maxWidth.
FrameWidths == {640, 720, 1024, 1080, 1500, 1920}

FrameHeights == {480, 720, 1000, 1080, 1280, 1920}

Frames == {[width |-> w, height |-> h] : w \in FrameWidths, h \in FrameHeights}

\* The interval fires and the source, if it is a video element, is ready
\* and playing a frame of some size.
TickFrame ==
    /\ isCCTVEnabled
    /\ nCalls < MaxCalls
    /\ \E f \in Frames :
        Commit(FeedEffect(IF ~isAnalyzing
                          THEN CaptureFrameOf(Cur, "ready", "tick",
                                              EncodeFrame(f))
                          ELSE Cur))
    /\ Record(IF isAnalyzing THEN "tickDropped" ELSE "tick", <<>>,
              IF ~isAnalyzing /\ ReadsElement(Cur) THEN "ready" ELSE "none")

\* Surveillance of a live feed or of a loaded asset; every call is rejected.
EncNext ==
    \/ ToggleSurveillance
    \/ OpenSettle
    \/ LoadAsset
    \/ TickFrame
    \/ SettleWith(Rejection)

EncSpec == Init /\ [][EncNext]_vars

\* The threshold machine: captures of loaded assets and of the surveillance
\* loop, their settlements, and the operator moving the confidence slider
\* while they are in flight.
ThresholdNext ==
    \/ LoadAsset
    \/ ManualCapture
    \/ Tick
    \/ ToggleSurveillance
    \/ SetThreshold
    \/ Settle

ThresholdSpec == Init /\ [][ThresholdNext]_vars

\* The promise of a dispatched call is settled in the end (fulfilled or
\* rejected), and its continuation in handleCapture is then run.
\* The configuration plays no part in it and is left at its defaults.
FairNext ==
    \/ ManualCapture
    \/ Tick
    \/ Settle
    \/ StartLive
    \/ OpenSettle
    \/ LoadAsset
    \/ FullReset
    \/ ToggleSurveillance

FairSpec == Init /\ [][FairNext]_vars /\ WF_vars(Settle)

\* --------------------------------------------------------------- claims

\* CaptureMode of the data model, read off the state: no source is Idle; a
\* source under the surveillance flag is ContinuousSurveillance; else the
\* live feed, or the kind of the loaded asset.
Mode ==
    IF ~isActive /\ previewUrl = Null THEN "Idle"
    ELSE IF isCCTVEnabled THEN "ContinuousSurveillance"
    ELSE IF isActive THEN "LiveDevice"
    ELSE IF previewType = "video" THEN "StaticVideo"
    ELSE "StaticImage"

\* Everything but the record a step keeps of itself.
programVars ==
    <<isAnalyzing, isCCTVEnabled, currentAnalysis, eventHistory, error,
      memory, config, isActive, previewUrl, previewType, permissionError,
      isInitializing, srcObject, unrevoked, inflight, openPending, nCalls>>

\* The calls this step settles.
Settled == Range(lastCall')

ResponseNamed(n) == CHOOSE r \in Responses : r.name = n

\* C1: at every instant at most one gateway call is outstanding.
C1_SingleInFlight == Cardinality(inflight) <= 1

\* A manual capture was attempted while a call dispatched by a tick was in
\* flight, and that call is still the only one.
C1_Witness ==
    /\ lastOp = "manualCapture"
    /\ \E c \in inflight : c.by = "tick"

\* C2: a response that arrives after a reset, an asset load or a mode
\* change that followed its dispatch changes neither the event history nor
\* the rolling memory nor the active result.
C2_StaleResponseDropped ==
    [][(lastOp' = "settle" /\ \E c \in Settled : c.stale)
        => UNCHANGED <<eventHistory, memory, currentAnalysis>>]_vars

\* C3: a surveillance tick that fires while a call is in flight dispatches
\* nothing and changes nothing, and the settlement of a call dispatches
\* nothing: the dropped tick is not replayed.
C3_Backpressure ==
    [][/\ (lastOp' \in {"tick", "tickDropped"} /\ inflight # {})
            => UNCHANGED programVars
       /\ lastOp' = "settle" => inflight' \subseteq inflight]_vars

\* A tick was dropped while the call of an earlier tick is in flight.
C3_Witness ==
    /\ lastOp = "tickDropped"
    /\ \E c \in inflight : c.by = "tick"

\* C4: the event history never holds more than 50 entries.
C4_HistoryBounded == Len(eventHistory) <= HistoryCap

\* The history is full and its oldest entries were cut.
C4_Witness ==
    /\ Len(eventHistory) = HistoryCap
    /\ lastResponse = "many"

\* C5: the rolling memory never holds more than 20 facts.
C5_MemoryBounded == Len(memory) <= MemoryCap

\* The memory is full after a result with more than 20 facts.
C5_Witness ==
    /\ Len(memory) = MemoryCap
    /\ lastResponse = "many"

\* C6: the rolling memory never holds the same fact twice.
C6_MemoryNoDuplicates ==
    \A i, j \in 1..Len(memory) : memory[i] = memory[j] => i = j

\* Two results with overlapping and repeated facts were merged.
C6_Witness ==
    /\ lastOp = "settle"
    /\ Range(memory) = {1, 2, 3}

\* C7 as amended: every entry a settlement admits to the event history has
\* a confidence of at least the threshold that was configured when its call
\* was dispatched.
C7_AdmittedAboveDispatchThreshold ==
    [][lastOp' = "settle" =>
        \A c \in Settled : \A i \in 1..Len(eventHistory') :
            eventHistory'[i].call = c.id =>
                eventHistory'[i].confidence >= c.config.confidenceThreshold]_vars

\* A call dispatched at threshold 0.5 settled after the threshold was moved
\* to 0.95, and its deduction of confidence 0.5 was admitted.
C7_Witness ==
    /\ lastCall # <<>>
    /\ lastCall[1].config.confidenceThreshold = 50
    /\ config.confidenceThreshold = 95
    /\ \E i \in 1..Len(eventHistory) :
        /\ eventHistory[i].confidence = 50
        /\ eventHistory[i].call = lastCall[1].id

\* C7 as stated: every entry a settlement admits to the event history has a
\* confidence of at least the threshold configured at the time it is
\* admitted.
C7_AdmittedAboveCurrentThreshold ==
    [][lastOp' = "settle" =>
        \A c \in Settled : \A i \in 1..Len(eventHistory') :
            eventHistory'[i].call = c.id =>
                eventHistory'[i].confidence >= config.confidenceThreshold]_vars

\* The call a settlement is about in C8: dispatched by a manual capture of
\* a loaded still image, surveillance off, and answered with deductions
\* while the event history is empty.
StaticImageCapture(c) ==
    /\ c.by = "manual"
    /\ c.payload # "jpeg"
    /\ ~c.cctv
    /\ eventHistory = <<>>
    /\ ResponseNamed(lastResponse').hasDeductions

\* The deductions of the response handled by this step whose confidence is
\* at least the threshold.
Passing(threshold) ==
    SelectSeq(ResponseNamed(lastResponse').deductions,
              LAMBDA d : d.confidence >= threshold)

\* C8 as amended: the settlement of such a call leaves in the history the
\* deductions whose confidence is at least the threshold the capture was
\* dispatched with, in the order of the response, cut to the first 50; one
\* deduction of confidence 0.9 gives one entry at 0.5 and none at 0.95.
C8_StaticImageEndToEnd ==
    [][lastOp' = "settle" =>
        \A c \in Settled :
            StaticImageCapture(c) =>
                LET kept == Passing(c.config.confidenceThreshold)
                IN  /\ eventHistory' =
                            SliceFirst(NewEntries(c, kept), HistoryCap)
                    /\ lastResponse' = "one" =>
                        Len(eventHistory') =
                            IF c.config.confidenceThreshold = 50 THEN 1
                            ELSE 0]_vars

\* The call of a manual capture of a loaded still image settled with one
\* deduction of confidence 0.9, which is the whole history.
C8_Witness ==
    /\ lastCall # <<>>
    /\ lastCall[1].by = "manual"
    /\ lastCall[1].payload # "jpeg"
    /\ ~lastCall[1].cctv
    /\ lastCall[1].config.confidenceThreshold = 50
    /\ lastResponse = "one"
    /\ Len(eventHistory) = 1
    /\ eventHistory[1].call = lastCall[1].id

\* C8 as stated: the settlement of such a call, the threshold being the one
\* it was dispatched with, leaves in the history exactly the deductions
\* whose confidence is at least the threshold.
C8_ExactlyThePassingDeductions ==
    [][lastOp' = "settle" =>
        \A c \in Settled :
            (/\ StaticImageCapture(c)
             /\ c.config.confidenceThreshold = config.confidenceThreshold)
                => eventHistory' =
                        NewEntries(c, Passing(config.confidenceThreshold))]_vars

\* C9: a manual capture while the mode is Idle dispatches no call and
\* changes no session or mode state.
C9_ManualCaptureInIdleIsNoOp ==
    [][(lastOp' = "manualCapture" /\ Mode = "Idle")
        => UNCHANGED programVars]_vars

\* A manual capture was invoked with no live feed and no asset.
C9_Witness ==
    /\ lastOp = "manualCapture"
    /\ Mode = "Idle"

\* C10: a manual capture during continuous surveillance of the live device
\* dispatches no call and changes no mode.
C10_NoManualCaptureInSurveillance ==
    [][(/\ lastOp' = "manualCapture"
        /\ Mode = "ContinuousSurveillance"
        /\ isActive)
        => /\ inflight' = inflight
           /\ Mode' = Mode]_vars

\* Surveillance ticks are capturing: the interval exists and a tick that
\* fires now dispatches a call.
TicksCapturing ==
    /\ isCCTVEnabled
    /\ \E src \in SourceConditions(Cur) :
        PollTick(Cur, src).inflight # inflight

\* C11: toggling surveillance on while the mode is Idle, StaticImage or
\* StaticVideo does not lead to a state in which surveillance ticks are
\* capturing.
C11_SurveillanceOnlyFromLiveDevice ==
    [][(/\ lastOp' = "toggleSurveillance"
        /\ ~isCCTVEnabled
        /\ Mode \in {"Idle", "StaticImage", "StaticVideo"})
        => ~TicksCapturing']_vars

\* C12: a full reset, taken in any state, leaves the mode Idle once it and
\* the effect it triggers have run: no live feed, no asset, and no device
\* open left to complete, whose grant would make the live feed active.
C12_FullResetReachesIdle ==
    [][lastOp' = "fullReset"
        => /\ Mode' = "Idle"
           /\ openPending' = 0]_vars

\* C13: the mode changes only as the direct effect of an operator action.
\* A tick and the settlement of a call leave the mode; the completion of a
\* device open changes it only from Idle, where start-live left it; and a
\* device open, whose completion changes the mode, is begun by the
\* operator's start-live alone, never by the reactive effect.
C13_ModeChangesOnlyByOperator ==
    [][/\ lastOp' \in {"tick", "tickDropped", "settle"} => Mode' = Mode
       /\ lastOp' = "openSettle" => (Mode' = Mode \/ Mode = "Idle")
       /\ lastOp' # "startLive" => openPending' <= openPending]_vars

\* C14: a failed device open leaves the live feed inactive, no device
\* stream held and the mode Idle, with the error displayed, and while the
\* error is displayed no step but the operator's retry begins a device
\* open, surveillance enabled or not.
C14_FailedOpenLeavesIdle ==
    [][/\ (lastOp' = "openSettle" /\ lastResponse' # "granted")
            => /\ ~isActive'
               /\ ~srcObject'
               /\ Mode' = "Idle"
               /\ permissionError' # Null
               /\ openPending' = 0
       /\ (permissionError # Null /\ lastOp' # "startLive")
            => /\ openPending' = 0
               /\ permissionError' = permissionError]_vars

\* C15: a gateway failure (a rejected call or an undecodable response) of a
\* call dispatched by a surveillance tick surfaces no error string, and one
\* of a call dispatched by a manual capture sets the failure message.
C15_ErrorSurfacing ==
    [][(lastOp' = "settle" /\ lastResponse' \in {"reject", "unparsable"})
        => \A c \in Settled :
            /\ c.by = "tick" => error' = Null
            /\ c.by = "manual" => error' = ErrorMessage]_vars

\* C16: a response that cannot be decoded, or that lacks the required
\* fields (the empty body among them), makes analyzeEvidence fail, and its
\* settlement changes neither the active result nor the event history nor
\* the rolling memory.
C16_MalformedResponseRejected ==
    [][(lastOp' = "settle" /\ lastResponse' \in {"unparsable", "empty"})
        => \A c \in Settled :
            /\ ~AnalyzeEvidence(ResponseNamed(lastResponse'), c.config).ok
            /\ UNCHANGED <<currentAnalysis, eventHistory, memory>>]_vars

\* C17: in every reachable state the live feed being active and an asset
\* being loaded exclude each other.
C17_OneSourceAtATime == ~(isActive /\ previewUrl # Null)

\* A manual capture that freezes the live feed: the feed is active and no
\* call is in flight.
ManualFreeze ==
    /\ lastOp' = "manualCapture"
    /\ isActive
    /\ ~isAnalyzing

\* The settlement of a device open attaches a stream to the video element
\* while the element holds one: the tracks of the stream it held stay live
\* and nothing refers to them any more, so that no later stopCamera stops
\* them.
StreamReplacedWhileLive ==
    /\ lastOp' = "openSettle"
    /\ lastResponse' \in {"granted", "playNotAllowedError"}
    /\ srcObject

\* C18: stopCamera releases the live device on every exit path and is
\* idempotent.  Immediately after an asset load, a manual freeze or a full
\* reset the video element holds no stream and the feed is inactive, and
\* stopCamera invoked again, there or in any state, changes nothing more;
\* and no stream gets out of reach of stopCamera with its tracks live.
C18_CloseReleasesAndIsIdempotent ==
    [][/\ (lastOp' \in {"loadAsset", "fullReset"} \/ ManualFreeze)
            => /\ ~srcObject'
               /\ ~isActive'
               /\ StopCamera(Cur)' = Cur'
       /\ StopCamera(StopCamera(Cur)) = StopCamera(Cur)
       /\ ~StreamReplacedWhileLive]_vars

\* C19: every blob URL is revoked when its asset is superseded, so that the
\* only blob URL not revoked is the one of the asset now loaded: there is
\* at most one at any time and none in Idle.
C19_BlobUrlsRevoked ==
    /\ unrevoked = (IF previewUrl = "blob" THEN 1 ELSE 0)
    /\ unrevoked <= 1
    /\ Mode = "Idle" => unrevoked = 0

\* A step that runs clearDeductionData: a full reset, an asset load, a
\* start of the live feed that is not refused, surveillance toggled on.
ResetStep ==
    \/ lastOp' \in {"fullReset", "loadAsset"}
    \/ lastOp' = "startLive" /\ ~isInitializing
    \/ lastOp' = "toggleSurveillance" /\ ~isCCTVEnabled

\* C20: a reset leaves the event history and the rolling memory empty and
\* the configuration (threshold, priority flags, depth level) as it was.
\* The session identifier is a constant of the component (useMemo without
\* dependencies), which no handler assigns.
C20_ResetPreservesConfig ==
    [][ResetStep
        => /\ eventHistory' = <<>>
           /\ memory' = <<>>
           /\ config' = config]_vars

\* A full reset has cleared a history and a memory that were not empty,
\* with the threshold moved away from its default, where it still is.
C20_Witness ==
    /\ lastOp = "fullReset"
    /\ lastResponse = "cleared"
    /\ eventHistory = <<>>
    /\ memory = <<>>
    /\ config.confidenceThreshold # DefaultThreshold

\* The evidence boxes on the screen, and the boxes they are placed from.
PlacedBoxes == UNION {Range(boxes) : boxes \in Range(EvidenceOverlay(Cur))}

ActiveEvidence ==
    IF currentAnalysis = <<>> \/ ~currentAnalysis[1].hasDeductions THEN {}
    ELSE UNION {Range(currentAnalysis[1].deductions[i].evidence) :
                    i \in 1..Len(currentAnalysis[1].deductions)}

\* C21: evidence boxes are on the screen only over a static asset or a
\* frozen frame, never while the live device feed is active, surveillance
\* of a live device included.
C21_NoBoxesOverLiveFeed == isActive => PlacedBoxes = {}

\* C22: every evidence box is placed at left = x/1000, top = y/1000,
\* width = width/1000 and height = height/1000 of the viewport, whatever the
\* size of the viewport (the placement is in percent of it), and the box
\* (500, 250, 100, 50) is placed at 50%, 25%, 10% and 5%.
C22_ProjectionLinear ==
    /\ PlacedBoxes =
        {[left |-> 10 * ev.x, top |-> 10 * ev.y, width |-> 10 * ev.width,
          height |-> 10 * ev.height] : ev \in ActiveEvidence}
    /\ Box(500, 250, 100, 50) \in ActiveEvidence
        => [left |-> 5000, top |-> 2500, width |-> 1000, height |-> 500]
                \in PlacedBoxes

\* The box (500, 250, 100, 50) of a result is on the screen over a still
\* image.
C22_Witness ==
    /\ lastOp = "settle"
    /\ Mode = "StaticImage"
    /\ ActiveEvidence = {Box(500, 250, 100, 50)}
    /\ PlacedBoxes # {}

\* C23: every value of a placed box lies between 0% and 100%, also when a
\* coordinate of the evidence lies outside the 0-1000 space.
C23_ProjectionClamped ==
    \A b \in PlacedBoxes :
        /\ b.left \in 0..10000
        /\ b.top \in 0..10000
        /\ b.width \in 0..10000
        /\ b.height \in 0..10000

\* This step dispatches a gateway call.
Dispatches == inflight' \ inflight # {}

\* C24: a manual capture in LiveDevice freezes the feed (StaticImage, device
\* released) if and only if it encoded a frame and dispatched it; when the
\* frame is not ready the mode stays LiveDevice and the device stays open.
C24_FreezeOnlyAfterEncode ==
    [][(lastOp' = "manualCapture" /\ Mode = "LiveDevice")
        => /\ (Mode' = "StaticImage" /\ ~srcObject') <=> Dispatches
           /\ ~Dispatches => /\ Mode' = "LiveDevice"
                              /\ srcObject' = srcObject
                              /\ isActive']_vars

\* C25: the in-flight flag is set from the dispatch of a gateway call until
\* that call settles, the settlement clears it whether the call succeeded or
\* failed, and a set flag is cleared in the end, so that a later capture is
\* not refused.
C25_FlagFollowsCall ==
    /\ [](isAnalyzing <=> inflight # {})
    /\ [][lastOp' = "settle" => ~isAnalyzing']_vars
    /\ isAnalyzing ~> ~isAnalyzing

\* A first call has settled and the flag was cleared: a second capture was
\* dispatched and holds the flag.
C25_Witness ==
    /\ lastOp \in {"manualCapture", "tick"}
    /\ isAnalyzing
    /\ \E c \in inflight : c.id = 2
    /\ error = Null

\* C26: a surveillance tick that finds its source not ready dispatches no
\* call, shows no error, sets no in-flight flag and leaves nothing pending;
\* surveillance stays on, and the next tick captures if the source is ready
\* by then.
C26_NotReadyTickIsNoOp ==
    [][(lastOp' = "tick" /\ lastResponse' = "notready")
        => /\ UNCHANGED programVars
           /\ ~Dispatches
           /\ error' = error
           /\ ~isAnalyzing'
           /\ isCCTVEnabled'
           /\ PollTick(Cur, "ready").inflight' # inflight']_vars

\* A tick found the live feed or the video asset not ready.
C26_Witness ==
    /\ lastOp = "tick"
    /\ lastResponse = "notready"
    /\ isCCTVEnabled
    /\ ~isAnalyzing
    /\ inflight = {}

\* C27: under surveillance no tick dispatches a call for a video asset that
\* is paused.
C27_PausedVideoNotCaptured ==
    [][(/\ lastOp' = "tick"
        /\ lastResponse' = "paused"
        /\ previewType = "video"
        /\ ~isActive) => inflight' = inflight]_vars

\* A tick found the video asset paused.
C27_Witness ==
    /\ lastOp = "tick"
    /\ lastResponse = "paused"
    /\ Mode = "ContinuousSurveillance"
    /\ previewType = "video"
    /\ nCalls = 0

\* The active result is the result of call c.
ActiveResultOf(c) == currentAnalysis # <<>> /\ currentAnalysis[1].call = c.id

\* C28: the active result is the most recent successfully parsed result
\* since the last clear: a call that succeeds (a body with its deduction
\* list) makes its result the active one, a call that fails (rejected,
\* undecodable, or a body without the required fields) leaves the active
\* result as it was, and no other step gives the session a result.
C28_ActiveResultIsLatestSuccess ==
    [][/\ (lastOp' = "settle" /\ lastResponse' \in {"one", "mixed", "many"})
            => \A c \in Settled : ~c.stale => ActiveResultOf(c)'
       /\ (lastOp' = "settle"
                /\ lastResponse' \in {"reject", "unparsable", "empty"})
            => currentAnalysis' = currentAnalysis
       /\ lastOp' # "settle"
            => currentAnalysis' \in {currentAnalysis, <<>>}]_vars

\* C29: the dispatch of a manual capture clears the visible result at
\* once, before the response arrives; the dispatch of a capture by a
\* surveillance tick leaves the result as it was.
C29_ManualDispatchClearsResult ==
    [][/\ (lastOp' = "manualCapture" /\ Dispatches)
            => currentAnalysis' = <<>>
       /\ (lastOp' = "tick" /\ Dispatches)
            => currentAnalysis' = currentAnalysis]_vars

\* The facts of a result that the memory does not hold yet, each once, in
\* the order of their first arrival.
FreshFacts(prev, facts) ==
    LET held == Range(prev)
        fresh == SelectSeq([i \in 1..Len(facts) |-> i],
                    LAMBDA i : /\ facts[i] \notin held
                               /\ \A j \in 1..(i - 1) : facts[j] # facts[i])
    IN  [k \in 1..Len(fresh) |-> facts[fresh[k]]]

\* C30: a result with memory-update facts leaves as memory the last 20
\* elements of the previous memory followed by the facts it did not hold,
\* in arrival order; a fact it held keeps its place and is not moved to the
\* end.
C30_MemoryMergeKeepsPositions ==
    [][lastOp' = "settle"
        => LET all == memory \o FreshFacts(memory, FactLists[lastResponse'])
           IN  memory' = IF Len(all) <= MemoryCap THEN all
                         ELSE SubSeq(all, Len(all) - MemoryCap + 1,
                                     Len(all))]_vars

\* The memory held facts 2 and 3 and a result brought facts 1, 2, 1: fact 2
\* kept its place and fact 1 was added once, at the end.
C30_Witness ==
    /\ lastOp = "settle"
    /\ lastResponse = "repeat"
    /\ memory = <<2, 3, 1>>

\* C31: a result with surviving deductions leaves them at the head of the
\* event history, in the order of the result, followed by the older entries
\* in their order; what the cap of 50 removes is the tail.
C31_HistoryPrepend ==
    [][lastOp' = "settle"
        => \A c \in Settled :
            LET batch == NewEntries(c,
                            SelectSeq(DeductionLists[lastResponse'],
                                LAMBDA d : d.confidence
                                            >= c.config.confidenceThreshold))
                total == Len(batch) + Len(eventHistory)
                kept == IF total <= HistoryCap THEN total ELSE HistoryCap
                head == IF Len(batch) <= kept THEN Len(batch) ELSE kept
            IN  /\ Len(eventHistory') = kept
                /\ SubSeq(eventHistory', 1, head) = SubSeq(batch, 1, head)
                /\ SubSeq(eventHistory', head + 1, kept)
                        = SubSeq(eventHistory, 1, kept - head)]_vars

\* Two results of thirty deductions: the thirty of the second stand before
\* the first twenty of the first, whose last ten were cut.
C31_Witness ==
    /\ lastOp = "settle"
    /\ lastResponse = "thirty"
    /\ Len(eventHistory) = HistoryCap
    /\ eventHistory[1].call = 2
    /\ eventHistory[30].title = 30
    /\ eventHistory[31].call = 1
    /\ eventHistory[HistoryCap].title = 20

\* The calls a tick dispatches in this step with a frame drawn from a video
\* element.
EncodedNow ==
    {c \in inflight' \ inflight : lastOp' = "tick" /\ ReadsElement(Cur)}

\* C32: the payload of every frame of a live feed or a video asset has its
\* longer side at most 1024 and the proportions of the source (to the
\* pixel: the canvas has whole pixels), portrait frames included.
C32_DownscaleLongerSide ==
    [][\A c \in EncodedNow :
        LET out == c.payload
            in == c.payload.source
        IN  /\ out.width <= MaxWidth
            /\ out.height <= MaxWidth
            /\ out.height * in.width <= in.height * out.width
            /\ in.height * out.width < (out.height + 1) * in.width]_vars

\* The operator commands that clear the session or change the source.
ClearingOps == {"fullReset", "loadAsset", "startLive", "toggleSurveillance"}

\* C33: the in-flight flag is set exactly while a gateway call is
\* outstanding; a reset, an asset load, a start of the live feed or a toggle
\* of surveillance leaves the flag set and the call pending, and a capture
\* attempted while a call from before such a step is pending dispatches
\* nothing.
C33_FlagSurvivesReset ==
    [][/\ isAnalyzing' <=> inflight' # {}
       /\ (lastOp' \in ClearingOps /\ inflight # {})
            => /\ isAnalyzing'
               /\ {c.id : c \in inflight'} = {c.id : c \in inflight}
       /\ (/\ lastOp' \in {"manualCapture", "tick", "tickDropped"}
           /\ \E c \in inflight : c.stale)
            => /\ nCalls' = nCalls
               /\ inflight' = inflight]_vars

\* A manual capture was attempted after a reset while the call dispatched
\* before the reset was still pending, and nothing was dispatched.
C33_Witness ==
    /\ lastOp = "manualCapture"
    /\ isAnalyzing
    /\ nCalls = 1
    /\ \E c \in inflight : c.stale /\ c.id = 1
    /\ previewUrl # Null

\* C34: the settlement of a gateway call that failed, by a rejected request
\* or by a body that does not parse, leaves the event history, the rolling
\* memory and the active result as they were; of the program's state only
\* the in-flight flag and the error string may differ afterwards.
C34_FailureKeepsSession ==
    [][(lastOp' = "settle" /\ lastResponse' \in {"reject", "unparsable"})
        => /\ UNCHANGED <<currentAnalysis, eventHistory, memory>>
           /\ UNCHANGED <<config, isCCTVEnabled, isActive, previewUrl,
                          previewType, permissionError, isInitializing,
                          srcObject, unrevoked, openPending, nCalls>>
           /\ ~isAnalyzing'
           /\ error' \in {error, ErrorMessage}]_vars

\* A call failed on a body that does not parse while the session held a
\* result, a history and a memory, and the failure raised the error.
C34_Witness ==
    /\ lastOp = "settle"
    /\ lastResponse = "unparsable"
    /\ currentAnalysis # <<>>
    /\ eventHistory # <<>>
    /\ memory # <<>>
    /\ error = ErrorMessage

\* C35: a toggle that switches surveillance on leaves the active result,
\* the event history and the rolling memory empty; a toggle that switches
\* it off leaves the three as they were; neither changes the configuration.
C35_ToggleClearsOnlyWhenSwitchingOn ==
    [][lastOp' = "toggleSurveillance"
        => /\ isCCTVEnabled' = ~isCCTVEnabled
           /\ isCCTVEnabled'
                => /\ currentAnalysis' = <<>>
                   /\ eventHistory' = <<>>
                   /\ memory' = <<>>
           /\ ~isCCTVEnabled'
                => UNCHANGED <<currentAnalysis, eventHistory, memory>>
           /\ config' = config]_vars

\* Surveillance was switched off over a session that holds a result, a
\* history and a memory.
C35_Witness ==
    /\ lastOp = "toggleSurveillance"
    /\ ~isCCTVEnabled
    /\ currentAnalysis # <<>>
    /\ eventHistory # <<>>
    /\ memory # <<>>
    /\ config.confidenceThreshold # DefaultThreshold

\* The entries of the history that came from call c.
EntriesOf(history, c) == SelectSeq(history, LAMBDA e : e.call = c.id)

\* C36: the entries a settlement adds to the event history are the
\* deductions of the response that pass the threshold its call was
\* dispatched with (cut to the capacity of the history), whatever the
\* threshold is when the response arrives; and a change of the threshold
\* leaves the event history as it was.
C36_FilterUsesDispatchThreshold ==
    [][/\ (lastOp' = "settle" /\ ResponseNamed(lastResponse').kind = "json")
            => \A c \in Settled :
                EntriesOf(eventHistory', c)
                    = SliceFirst(
                        NewEntries(c, Passing(c.config.confidenceThreshold)),
                        HistoryCap)
       /\ lastOp' = "setConfig"
            => /\ eventHistory' = eventHistory
               /\ inflight' = inflight]_vars

\* A call dispatched at threshold 0.95 settled after the threshold was
\* lowered to 0.5: none of its deductions of confidence 0.9, 0.3 and 0.5
\* entered the history, and the entry of the earlier call is still there.
C36_Witness ==
    /\ lastOp = "settle"
    /\ lastResponse = "mixed"
    /\ lastCall # <<>>
    /\ lastCall[1].id = 2
    /\ lastCall[1].config.confidenceThreshold = 95
    /\ config.confidenceThreshold = 50
    /\ eventHistory # <<>>
    /\ \A i \in 1..Len(eventHistory) : eventHistory[i].call = 1

\* C37: when a call fails, the error string is set exactly if surveillance
\* was off when the call was dispatched, whatever the surveillance flag is
\* when the failure arrives: a call dispatched with surveillance off sets
\* the failure message, one dispatched with surveillance on leaves the
\* error as it was.
C37_ErrorDecidedAtDispatch ==
    [][(lastOp' = "settle" /\ lastResponse' \in {"reject", "unparsable"})
        => \A c \in Settled :
            /\ ~c.cctv => error' = ErrorMessage
            /\ c.cctv => (error' = error /\ error' = Null)]_vars

\* A call dispatched with surveillance off was rejected after surveillance
\* was switched on, and the failure message is shown.
C37_Witness ==
    /\ lastOp = "settle"
    /\ lastResponse = "reject"
    /\ lastCall # <<>>
    /\ ~lastCall[1].cctv
    /\ isCCTVEnabled
    /\ error = ErrorMessage

\* C38: never more than one device-open request is pending, and one is
\* pending exactly while the feed is initializing; a start-live (or retry)
\* command issued while an open is initializing changes no state, and no
\* other step taken meanwhile, the surveillance auto-start of the feed
\* effect included, starts a second acquisition.
C38_OneOpenPending ==
    [][/\ openPending' <= 1
       /\ isInitializing' <=> openPending' = 1
       /\ (lastOp' = "startLive" /\ isInitializing)
            => UNCHANGED programVars
       /\ (isInitializing /\ lastOp' # "openSettle")
            => openPending' = openPending]_vars

\* Start-live was pressed again while the open was initializing: the
\* history a stale response filled in the meantime is still there, which
\* a camera setup that ran would have cleared.
C38_Witness ==
    /\ lastOp = "startLive"
    /\ isInitializing
    /\ openPending = 1
    /\ eventHistory # <<>>
====
